---- MODULE Spec2Model ----
(***************************************************************************)
(* A model of the crawl orchestration of crawler.py: SiteCrawler's         *)
(* frontier (queue + visited set), the robots gate, the fetch wrapper with *)
(* its single fallback retry, link filtering, content selection, change    *)
(* detection against the registry, and the persistence of files and of     *)
(* registry.json, over one session and a re-run on the same directory.     *)
(***************************************************************************)
EXTENDS Integers, Sequences, FiniteSets, TLC

\* ------------------------------------------------------------------ bounds

\* Largest page budget (--max-pages) a session is given; the site has
\* MaxPages same-domain pages besides the seed.
MaxPages == 2

\* Longest list of links one fetched page reports.
MaxLinks == 2

\* --------------------------------------------------------------- constants

\* delay = 4.0 if len(self.visited) == 1 else random.uniform(4.0, 7.0)
FirstDelay == 4
DelayMin == 4
DelayMax == 7

\* ------------------------------------------------------------------- URLs

\* A URL or href as urlparse splits it; the path is a sequence of tokens,
\* "/" and "." being the separators and every other token a name.
Url(s, h, p, q) == [scheme |-> s, host |-> h, path |-> p, query |-> q]

\* --base-url as given on the command line.
BaseUrl == Url("http", "base", <<"/">>, "")

\* self.base_domain_netloc = urlparse(base_url).netloc
base_domain_netloc == BaseUrl.host

PageNames == <<"a", "b", "c", "d", "e", "f">>

PageHref(i) == Url("", "", <<"/", PageNames[i]>>, "")

MailtoHref == Url("mailto", "", <<"x">>, "")
OtherDomainHref == Url("http", "other", <<"/", "a">>, "")
SubDomainHref == Url("http", "sub.base", <<"/", "a">>, "")
\* The link back to the home page, spelt with its trailing slash.
RootHref == Url("http", "base", <<"/">>, "")
PdfHref == Url("", "", <<"/", "doc", ".", "PDF">>, "x")
DottedDirHref == Url("", "", <<"/", "v1", ".", "js", "/", "page">>, "")

PageHrefs == {PageHref(i) : i \in 1..MaxPages}

\* The hrefs a fetched page may report in result.links['internal'].
Hrefs ==
    PageHrefs \cup {MailtoHref, OtherDomainHref, SubDomainHref, RootHref,
                    DottedDirHref}

\* urllib.parse.uses_relative, as far as the schemes of the model go.
uses_relative == {"http", ""}

\* urllib.parse.urljoin(base, url) for hrefs that are absolute URLs,
\* absolute paths, or scheme-only (mailto:) references.
urljoin(base, url) ==
    LET scheme == IF url.scheme = "" THEN base.scheme ELSE url.scheme
    IN  IF scheme # base.scheme \/ scheme \notin uses_relative THEN url
        ELSE IF url.host # "" THEN Url(scheme, url.host, url.path, url.query)
        ELSE Url(scheme, base.host, url.path, url.query)

RECURSIVE rstrip_slash(_)
\* str.rstrip('/') on the path.
rstrip_slash(p) ==
    IF p # <<>> /\ p[Len(p)] = "/" THEN rstrip_slash(SubSeq(p, 1, Len(p) - 1))
    ELSE p

\* crawl4ai.utils.normalize_url_for_deep_crawl(href, base_url): resolve the
\* href against its context and strip the trailing slash of the path.
normalize_url_for_deep_crawl(href, base) ==
    LET full == urljoin(base, href)
    IN  Url(full.scheme, full.host, rstrip_slash(full.path), full.query)

\* normalized_base = normalize_url_for_deep_crawl(self.base_url, self.base_url)
normalized_base == normalize_url_for_deep_crawl(BaseUrl, BaseUrl)

EXCLUDED_FILE_EXTENSIONS ==
    {"pdf", "doc", "docx", "xls", "xlsx", "zip", "rar",
     "jpg", "jpeg", "png", "gif", "svg", "css", "js", "xml"}

\* str.lower() on one token.
lower(t) ==
    CASE t = "PDF" -> "pdf"
      [] t = "PNG" -> "png"
      [] t = "JS" -> "js"
      [] OTHER -> t

\* has_file_extension(url, extensions): the text after the last "." of the
\* lower-cased path, cut at the first "/", is looked up in the set.
has_file_extension(url, extensions) ==
    LET path == [i \in 1..Len(url.path) |-> lower(url.path[i])]
        dots == {i \in 1..Len(path) : path[i] = "."}
    IN  IF dots # {}
        THEN LET last == CHOOSE i \in dots : \A j \in dots : j <= i
                 rest == SubSeq(path, last + 1, Len(path))
                 ext == IF rest = <<>> \/ rest[1] = "/" THEN "" ELSE rest[1]
             IN  ext \in extensions
        ELSE FALSE

InSeq(x, s) == \E i \in 1..Len(s) : s[i] = x

\* The test of _extract_links that drops a link of another site:
\* "if parsed_netloc and parsed_netloc != self.base_domain_netloc: continue".
OffSite(href, current_url) ==
    LET parsed_netloc == urljoin(current_url, href).host
    IN  parsed_netloc # "" /\ parsed_netloc # base_domain_netloc

RECURSIVE extract_links_from(_, _, _)
extract_links_from(hrefs, current_url, links) ==
    IF hrefs = <<>> THEN links
    ELSE LET href == Head(hrefs)
             keep == /\ ~OffSite(href, current_url)
                     /\ ~has_file_extension(href, EXCLUDED_FILE_EXTENSIONS)
                     /\ ~InSeq(href, links)
         IN  extract_links_from(Tail(hrefs), current_url,
                                IF keep THEN Append(links, href) ELSE links)

\* SiteCrawler._extract_links(result, current_url)
_extract_links(result, current_url) ==
    extract_links_from(result.links, current_url, <<>>)

\* ---------------------------------------------------------- fetch results

Titles == {"T1", "T2"}

\* The (html, raw_markdown, fit_markdown) a successful fetch carries; "" is
\* an empty or missing variant.
Contents == {<<"", "", "">>, <<"H", "R", "F">>}

RECURSIVE SeqsUpTo(_, _)
\* All sequences over S of length at most n.
SeqsUpTo(S, n) ==
    IF n = 0 THEN {<<>>}
    ELSE LET shorter == SeqsUpTo(S, n - 1)
         IN  shorter \cup {Append(s, x) : s \in shorter, x \in S}

LinkLists == SeqsUpTo(Hrefs, MaxLinks)
PageLinkLists == SeqsUpTo(PageHrefs, MaxLinks)

Result(ok, status, links, c, t) ==
    [success |-> ok, status_code |-> status, links |-> links,
     html |-> c[1], raw_markdown |-> c[2], fit_markdown |-> c[3], title |-> t]

\* What crawler.arun may return: a failure, a 403 or 404 page, or a page
\* with links and content.
FailedResults ==
    {Result(FALSE, 0, <<>>, <<"", "", "">>, "T1"),
     Result(TRUE, 403, <<>>, <<"H", "R", "F">>, "T1"),
     Result(TRUE, 404, <<>>, <<"H", "R", "F">>, "T1")}

\* A page with content has a title; one without is given the first.
PagesWith(lists) ==
    {Result(TRUE, 200, l, <<"", "", "">>, "T1") : l \in lists}
        \cup {Result(TRUE, 200, l, c, t) :
                l \in lists, c \in Contents \ {<<"", "", "">>}, t \in Titles}

PageResults == PagesWith(LinkLists)

\* A selection that knows no second choice.
_extract_content_first_choice(content_format, result) ==
    IF content_format = "html" THEN <<result.html, "html">>
    ELSE IF content_format = "raw-md" THEN <<result.raw_markdown, "md">>
    ELSE <<result.fit_markdown, "md">>

\* SiteCrawler._extract_content(result): <<content, ext>>
_extract_content(content_format, result) ==
    IF content_format = "html" THEN <<result.html, "html">>
    ELSE IF content_format = "raw-md"
    THEN <<IF result.raw_markdown # "" THEN result.raw_markdown
           ELSE result.fit_markdown, "md">>
    ELSE <<IF result.fit_markdown # "" THEN result.fit_markdown
           ELSE result.raw_markdown, "md">>

\* A frame that leaves the title out of the metadata block.
file_content_untitled(ext, normalized_url, page_title, content) ==
    [frame |-> ext, url |-> normalized_url, title |-> "", body |-> content]

\* file_content: the metadata block (URL, title) framed for md or as an
\* html comment, followed by the content.
file_content(ext, normalized_url, page_title, content) ==
    [frame |-> ext, url |-> normalized_url, title |-> page_title,
     body |-> content]

\* hashlib.sha256(file_content.encode('utf-8')).hexdigest(), taken to be
\* free of collisions.
sha256(text) == <<"sha256", text>>

\* url_to_file_path(url, site_code, site_output_dir, ext): the name is built
\* from the md5 of the url and the extension.
url_to_file_path(url, ext) == [md5 |-> url, ext |-> ext]

\* ---------------------------------------------------------------- registry

NoHash == <<>>
NoPath == [md5 |-> Url("", "", <<>>, ""), ext |-> ""]
LegacyPath == [md5 |-> Url("", "", <<"legacy">>, ""), ext |-> "md"]

\* A value of registry.json's top-level object: a dict with (possibly
\* missing) "hash", "last_crawled" and "path", or a value that is no dict.
Entry(h, t, p) == [dict |-> TRUE, hash |-> h, last_crawled |-> t, path |-> p]
NotADict == [dict |-> FALSE, hash |-> NoHash, last_crawled |-> 0, path |-> NoPath]
EmptyDict == Entry(NoHash, 0, NoPath)

EmptyRegistry == [u \in {} |-> EmptyDict]

\* self.registry.get(normalized_url, {})
registry_get(reg, url) == IF url \in DOMAIN reg THEN reg[url] ELSE EmptyDict

\* An Unchanged evaluation that records the path it would write to.
stored_get_path_fresh(stored, file_path) == file_path

\* stored.get("path", file_path)
stored_get_path(stored, file_path) ==
    IF stored.path = NoPath THEN file_path ELSE stored.path

\* An assignment that is lost.
registry_put_lost(reg, url, e) == reg

\* self.registry[normalized_url] = {...}
registry_put(reg, url, e) ==
    [u \in DOMAIN reg \cup {url} |-> IF u = url THEN e ELSE reg[u]]

\* registry.json on disk: missing, unparseable or a non-object ("garbage"),
\* or an object.
RegFile(s, d) == [state |-> s, data |-> d]

\* SiteCrawler._load_registry(); read_fails is open() or json.load raising.
_load_registry(file, read_fails) ==
    IF file.state = "missing" THEN EmptyRegistry
    ELSE IF read_fails \/ file.state = "garbage" THEN EmptyRegistry
    ELSE file.data

\* SiteCrawler._save_registry(): fault is "none", "open" (open() raises, the
\* file is untouched) or "dump" (json.dump raises after open truncated it).
_save_registry(file, reg, fault) ==
    CASE fault = "none" -> RegFile("ok", reg)
      [] fault = "open" -> file
      [] OTHER -> RegFile("garbage", EmptyRegistry)

\* ------------------------------------------------------------------- stats

ErrorKinds ==
    {"error_message", "403 Forbidden", "404 Not Found", "no content",
     "fetch error", "fallback error", "AttributeError", "write error"}

InitStats ==
    [success |-> 0, failed |-> 0, errors |-> [k \in ErrorKinds |-> 0],
     saved_files |-> <<>>, links_found |-> 0, links_added |-> 0,
     queue_remaining |-> 0, skipped_unchanged |-> 0, skipped_by_robots |-> 0]

\* An error record that leaves the per-kind counter alone.
_record_error_uncounted(st, error_type) == [st EXCEPT !.failed = @ + 1]

\* An error record that counts the kind and not the failure.
_record_error_unfailed(st, error_type) == [st EXCEPT !.errors[error_type] = @ + 1]

\* SiteCrawler._record_error(url, error_type)
_record_error(st, error_type) ==
    [st EXCEPT !.failed = @ + 1, !.errors[error_type] = @ + 1]

\* A gate that denies the URL when can_fetch raises.
_is_allowed_by_robots_strict(parser, disallowed, url, raises) ==
    IF parser = "None" THEN TRUE
    ELSE IF raises THEN FALSE
    ELSE url \notin disallowed

\* SiteCrawler._is_allowed_by_robots(url): parser is "None" or "rp";
\* raises is can_fetch raising.
_is_allowed_by_robots(parser, disallowed, url, raises) ==
    IF parser = "None" THEN TRUE
    ELSE IF raises THEN TRUE
    ELSE url \notin disallowed

\* A loop that tests the budget with <= in place of <.
LoopCond_inclusive(q, v, max_pages) == q # <<>> /\ Cardinality(v) <= max_pages

\* The loop condition of crawl(): while self.queue and len(self.visited) < self.max_pages
LoopCond(q, v, max_pages) == q # <<>> /\ Cardinality(v) < max_pages

\* An enqueue test under which no link is ever new.
IsNew_never(normalized_link, v, q) == FALSE

\* The enqueue test of _crawl_page:
\* normalized_link not in self.visited and normalized_link not in self.queue
IsNew(normalized_link, v, q) == normalized_link \notin v /\ ~InSeq(normalized_link, q)

\* A crawler that discovers links and appends none.
enqueue_links_none(links, url, v, q) == q

RECURSIVE enqueue_links(_, _, _, _)
\* for link in links: ... self.queue.append(normalized_link)
enqueue_links(links, url, v, q) ==
    IF links = <<>> THEN q
    ELSE LET normalized_link == normalize_url_for_deep_crawl(Head(links), url)
         IN  enqueue_links(Tail(links), url, v,
                           IF IsNew(normalized_link, v, q)
                           THEN Append(q, normalized_link) ELSE q)

\* A wrapper that takes every error of the primary call for a timeout.
IsNavigationTimeout_any(e) == TRUE

\* "Page.goto: Timeout" in str(e)
IsNavigationTimeout(e) == e = "timeout"

\* ------------------------------------------------------------------- state

VARIABLES
    cfg,          \* the session's arguments: max_pages, content_format, ignore_robots
    robot_parser, \* self.robot_parser: "None" or "rp"
    registry,     \* self.registry
    regfile,      \* registry.json on disk
    files,        \* the output files on disk: path -> content
    visited,      \* self.visited
    queue,        \* self.queue
    stats,        \* self.stats
    pc,           \* where crawl() stands: start, loop, pace, fetch, fallback, done
    url,          \* the url popped for the page evaluation in progress
    ev,           \* what the log records of the current (or last) page evaluation
    clock,        \* datetime.utcnow(), as a count of readings
    rerun,        \* FALSE in the first session, TRUE in the one run after it
    stub,         \* the fetch service: "any", "replay" or "endless"
    site,         \* stub = "replay": what the service answered for each url
    drift,        \* stub = "replay": an answer of the re-run differs from the first
    requested,    \* the urls handed to crawler.arun with the primary configuration
    appended,     \* the urls appended to self.queue, in order
    reg_start     \* self.registry as __init__ loaded it for this session

vars ==
    <<cfg, robot_parser, registry, regfile, files, visited, queue, stats, pc,
      url, ev, clock, rerun, stub, site, drift, requested, appended,
      reg_start>>

Formats == {"html", "raw-md", "filtered-md"}

\* robots.txt of the site disallows /a for every crawler.
robots_txt == {normalize_url_for_deep_crawl(PageHref(1), BaseUrl)}

NoFiles == [p \in {} |-> 0]

Truncated == file_content("", Url("", "", <<>>, ""), "", "")

\* open(file_path, 'w') and f.write(file_content): fault is "none", "open"
\* (the file is untouched) or "write" (the file is left truncated).
write_file(fs, path, text, fault) ==
    CASE fault = "none" -> [p \in DOMAIN fs \cup {path} |-> IF p = path THEN text ELSE fs[p]]
      [] fault = "open" -> fs
      [] OTHER -> [p \in DOMAIN fs \cup {path} |-> IF p = path THEN Truncated ELSE fs[p]]

SeedMd == file_content("md", normalized_base, "T1", "F")

\* What the output directory may hold when the first session starts: nothing,
\* a registry.json with a value that is no object, or one left by an earlier
\* run under another spelling of the output directory.
InitDisks ==
    {[regfile |-> RegFile("missing", EmptyRegistry), files |-> NoFiles],
     [regfile |-> RegFile("ok", registry_put(EmptyRegistry, normalized_base, NotADict)),
      files |-> NoFiles],
     [regfile |-> RegFile("ok", registry_put(EmptyRegistry, normalized_base,
                                             Entry(sha256(SeedMd), 0, LegacyPath))),
      files |-> write_file(NoFiles, LegacyPath, SeedMd, "none")]}

\* An output directory whose registry.json cannot be parsed or holds a
\* value that is no object.
GarbageDisk == [regfile |-> RegFile("garbage", EmptyRegistry), files |-> NoFiles]

\* An output directory left by an earlier run that saved the second page
\* of the site as markdown.
PageDisk ==
    LET u == normalize_url_for_deep_crawl(PageHref(2), BaseUrl)
        text == file_content("md", u, "T1", "F")
    IN  [regfile |-> RegFile("ok", registry_put(EmptyRegistry, u,
                                                 Entry(sha256(text), 0,
                                                       url_to_file_path(u, "md")))),
         files |-> write_file(NoFiles, url_to_file_path(u, "md"), text, "none")]

\* A crawler that draws every delay from the range.
Delay_from_range(v) == [lo |-> DelayMin, hi |-> DelayMax]

\* An output directory left by an earlier run that saved the home page as
\* markdown.
SeedDisk ==
    [regfile |-> RegFile("ok", registry_put(EmptyRegistry, normalized_base,
                                            Entry(sha256(SeedMd), 0,
                                                  url_to_file_path(normalized_base, "md")))),
     files |-> write_file(NoFiles, url_to_file_path(normalized_base, "md"), SeedMd,
                          "none")]

\* delay = 4.0 if len(self.visited) == 1 else random.uniform(4.0, 7.0), as
\* the interval the delay lies in.
Delay(v) ==
    IF Cardinality(v) = 1 THEN [lo |-> FirstDelay, hi |-> FirstDelay]
    ELSE [lo |-> DelayMin, hi |-> DelayMax]

NoDelay == [lo |-> 0, hi |-> 0]

IdleEv ==
    [url |-> normalized_base, gate |-> "", delay |-> NoDelay, calls |-> <<>>,
     answers |-> <<>>, result_kind |-> "", page_title |-> "", content |-> "",
     ext |-> "", outcome |-> "", decision |-> "", wrote |-> FALSE,
     robots |-> "", file_io |-> "", registry_io |-> "", links |-> <<>>]

\* The log of a page evaluation, closed with its outcome.
Logged(e, outcome, decision, wrote) ==
    [e EXCEPT !.outcome = outcome, !.decision = decision, !.wrote = wrote]

\* The log of what the writes of the output file and of registry.json did:
\* "" (not attempted), "ok", or the fault.
LoggedIO(e, file_fault, registry_fault) ==
    [e EXCEPT !.file_io = IF file_fault = "none" THEN "ok" ELSE file_fault,
              !.registry_io = IF registry_fault = "none" THEN "ok" ELSE registry_fault]

\* The log of what the robots lookup did: "off" (no parser), "error"
\* (can_fetch raised), "yes" or "no" (the answer of can_fetch).
RobotsLookup(parser, disallowed, u, raises) ==
    IF parser = "None" THEN "off"
    ELSE IF raises THEN "error"
    ELSE IF u \in disallowed THEN "no"
    ELSE "yes"

\* The I/O faults the environment may inject, with stub = "faulty" and
\* "crash" alone.
Faults(kinds) ==
    IF stub \in {"faulty", "crash"} THEN {"none"} \cup kinds ELSE {"none"}
Flags == IF stub = "faulty" THEN BOOLEAN ELSE {FALSE}

\* SiteCrawler._init_robot_parser(): None when robots is ignored or when
\* reading robots.txt raises.
_init_robot_parser(ignore_robots, read_raises) ==
    IF ignore_robots THEN "None"
    ELSE IF read_raises THEN "None"
    ELSE "rp"

InitWith(kind) ==
    /\ stub = kind
    /\ cfg \in [max_pages : 0..MaxPages, content_format : Formats,
                ignore_robots : BOOLEAN]
    /\ \E read_raises \in Flags :
           robot_parser = _init_robot_parser(cfg.ignore_robots, read_raises)
    /\ stub = "endless" => robot_parser = "None" /\ cfg.max_pages >= 1
    /\ \E d \in (IF stub = "faulty" THEN InitDisks \cup {GarbageDisk, PageDisk}
                  ELSE IF stub = "crash" THEN InitDisks \cup {SeedDisk}
                  ELSE InitDisks),
          read_fails \in Flags :
           /\ regfile = d.regfile
           /\ files = d.files
           /\ registry = _load_registry(d.regfile, read_fails)
    /\ visited = {}
    /\ queue = <<>>
    /\ stats = InitStats
    /\ pc = "start"
    /\ url = normalized_base
    /\ ev = IdleEv
    /\ clock = 0
    /\ rerun = FALSE
    /\ site = [u \in {} |-> 0]
    /\ drift = FALSE
    /\ requested = <<>>
    /\ appended = <<>>
    /\ reg_start = registry

Init == InitWith("any")

\* ------------------------------------------------------------ fetch service

NoResult == Result(FALSE, 0, <<>>, <<"", "", "">>, "T1")

\* What one call of crawler.arun does: return a result, or raise an error
\* whose message holds "Page.goto: Timeout" ("timeout") or not ("error").
Return(r) == [raised |-> "", result |-> r]
Raise(e) == [raised |-> e, result |-> NoResult]
Unasked == [raised |-> "unasked", result |-> NoResult]

Failures == {Raise("timeout"), Raise("error")} \cup {Return(r) : r \in FailedResults}

\* stub = "any": whatever a fetch service may answer.
Responses == Failures \cup {Return(r) : r \in PageResults}

\* stub = "replay" and "endless": the pages link to pages of the site.
PlainPages == PagesWith(PageLinkLists)
PlainResponses == Failures \cup {Return(r) : r \in PlainPages}

\* The links of r that lead to a same-domain page not seen so far.
FreshLinks(r) ==
    {i \in 1..Len(r.links) :
        /\ r.links[i] \in PageHrefs
        /\ normalize_url_for_deep_crawl(r.links[i], url) \notin visited
        /\ ~InSeq(normalize_url_for_deep_crawl(r.links[i], url), queue)}

\* The endless site: every page is served and links to a new page, one a
\* page, so that the pages of the bounded site last for the largest budget.
OnEndlessSite(resp) ==
    stub = "endless" => (resp.raised # "" \/ Cardinality(FreshLinks(resp.result)) = 1)

EndlessResponses == {Return(r) : r \in PagesWith({<<h>> : h \in PageHrefs})}
TimeoutOrEndless == {Raise("timeout")} \cup EndlessResponses

OtherTitle(t) == IF t = "T1" THEN "T2" ELSE "T1"

\* The answer resp with the page's title changed.
Retitled(resp) == [resp EXCEPT !.result.title = OtherTitle(@)]

\* In the re-run the site answers as in the first session, or with the title
\* of a page changed.
Replayed(resp) ==
    IF resp.raised = "" /\ resp.result.status_code = 200 /\ resp.result.success
    THEN {resp, Retitled(resp)}
    ELSE {resp}

PrimaryResponses(u) ==
    CASE stub = "any" -> Responses
      [] stub = "endless" -> TimeoutOrEndless
      [] OTHER -> IF rerun /\ u \in DOMAIN site THEN Replayed(site[u].primary)
                  ELSE PlainResponses

FallbackResponses(u) ==
    CASE stub = "any" -> Responses
      [] stub = "endless" -> EndlessResponses
      [] OTHER -> IF rerun /\ u \in DOMAIN site /\ site[u].fallback # Unasked
                  THEN Replayed(site[u].fallback)
                  ELSE PlainResponses

\* stub = "replay": the service remembers what it answered for u in the
\* first session.
Remember(u, which, resp) ==
    IF stub # "replay" \/ rerun THEN site
    ELSE [x \in DOMAIN site \cup {u} |->
            IF x # u THEN site[x]
            ELSE IF which = "primary" THEN [primary |-> resp, fallback |-> Unasked]
            ELSE [primary |-> site[u].primary, fallback |-> resp]]

\* ----------------------------------------------------------------- actions

\* crawl(), up to the loop: self.queue.append(normalized_base)
Start ==
    /\ pc = "start"
    /\ queue' = Append(queue, normalized_base)
    /\ appended' = Append(appended, normalized_base)
    /\ pc' = "loop"
    /\ UNCHANGED <<cfg, robot_parser, registry, regfile, files, visited, stats,
                   url, ev, clock, rerun, stub, site, drift, requested, reg_start>>

\* if normalized_url in self.visited: return
already_visited(v, normalized_url) == normalized_url \in v

\* A dispatch that forgets to add the url to self.visited.
mark_visited_forgets(v, normalized_url) == v

\* self.visited.add(normalized_url)
mark_visited(v, normalized_url) == v \cup {normalized_url}

\* A gate that books a blocked page as a failure too.
skip_by_robots_as_failure(st) ==
    [st EXCEPT !.skipped_by_robots = @ + 1, !.failed = @ + 1]

\* self.stats['skipped_by_robots'] += 1
skip_by_robots(st) == [st EXCEPT !.skipped_by_robots = @ + 1]

\* One turn of the loop up to the pacing sleep: url = self.queue.popleft(),
\* then _crawl_page's robots test, visited test and self.visited.add.
Pop ==
    /\ pc = "loop"
    /\ LoopCond(queue, visited, cfg.max_pages)
    /\ \E raises \in Flags :
        LET popped == Head(queue)
            normalized_url == normalize_url_for_deep_crawl(popped, BaseUrl)
            allowed == _is_allowed_by_robots(robot_parser, robots_txt,
                                             normalized_url, raises)
            seen == [IdleEv EXCEPT !.url = normalized_url,
                                   !.robots = RobotsLookup(robot_parser, robots_txt,
                                                           normalized_url, raises)]
        IN  /\ queue' = Tail(queue)
            /\ url' = popped
            /\ IF ~allowed
               THEN /\ stats' = skip_by_robots(stats)
                    /\ ev' = [seen EXCEPT !.gate = "deny",
                                            !.outcome = "Blocked"]
                    /\ pc' = "loop"
                    /\ UNCHANGED visited
               ELSE IF already_visited(visited, normalized_url)
               THEN /\ ev' = [seen EXCEPT !.gate = "allow",
                                            !.outcome = "Revisit"]
                    /\ pc' = "loop"
                    /\ UNCHANGED <<stats, visited>>
               ELSE /\ visited' = mark_visited(visited, normalized_url)
                    /\ ev' = [seen EXCEPT !.gate = "allow"]
                    /\ pc' = "pace"
                    /\ UNCHANGED stats
    /\ UNCHANGED <<cfg, robot_parser, registry, regfile, files, clock, rerun,
                   stub, site, drift, requested, appended, reg_start>>

\* await asyncio.sleep(delay), then the call of crawler.arun with the
\* primary configuration.
Pace ==
    /\ pc = "pace"
    /\ ev' = [ev EXCEPT !.delay = Delay(visited), !.calls = Append(@, "primary")]
    /\ requested' = Append(requested, ev.url)
    /\ pc' = "fetch"
    /\ UNCHANGED <<cfg, robot_parser, registry, regfile, files, visited, queue,
                   stats, url, clock, rerun, stub, site, drift, appended,
                   reg_start>>

\* What a page evaluation leaves in the session and on disk when it ends.
Left(q, st, reg, rf, fs, ck, e) ==
    [queue |-> q, stats |-> st, registry |-> reg, regfile |-> rf, files |-> fs,
     clock |-> ck, ev |-> e]

\* The end of a page evaluation that leaves o.
Finish(o) ==
    /\ queue' = o.queue
    /\ appended' = appended \o SubSeq(o.queue, Len(queue) + 1, Len(o.queue))
    /\ stats' = o.stats
    /\ registry' = o.registry
    /\ regfile' = o.regfile
    /\ files' = o.files
    /\ clock' = o.clock
    /\ ev' = o.ev
    /\ pc' = "loop"
    /\ UNCHANGED <<cfg, robot_parser, visited, url, rerun, stub, requested,
                   reg_start>>

\* except Exception as e: self._record_error(url, str(e))
Caught(q, st, fs, e, kind) ==
    Left(q, _record_error(st, kind), registry, regfile, fs, clock, e)

\* A page whose registry entry is stored before its file is written.
WriteFailure_recorded(q, st, e, file_path, text, content_hash, timestamp, fault) ==
    Left(q, _record_error(st, "write error"),
         registry_put(registry, e.url, Entry(content_hash, timestamp, file_path)),
         regfile, write_file(files, file_path, text, fault), timestamp, e)

\* with open(file_path, 'w') as f: f.write(file_content) raises; the
\* except clause of _crawl_page records the error.
WriteFailure(q, st, e, file_path, text, content_hash, timestamp, fault) ==
    Left(q, _record_error(st, "write error"), registry, regfile,
         write_file(files, file_path, text, fault), timestamp, e)

\* What the result of a fetch is, by its success flag and status code.
ResultKind(result) ==
    IF ~result.success THEN "unsuccessful"
    ELSE IF result.status_code = 403 THEN "403"
    ELSE IF result.status_code = 404 THEN "404"
    ELSE "page"

\* _crawl_page from "await asyncio.sleep(0.5)" to its end, for a result the
\* fetch returned; e0 is the log of the evaluation so far, fault what
\* happens to the write of the file and save to the write of registry.json.
Process(result, e0, fault, save) ==
    LET normalized_url == normalize_url_for_deep_crawl(url, BaseUrl)
        e1 == [e0 EXCEPT !.result_kind = ResultKind(result)]
    IN
    IF ~result.success
    THEN Caught(queue, stats, files, Logged(e1, "FetchFailed", "", FALSE),
                "error_message")
    ELSE IF result.status_code = 403
    THEN Caught(queue, stats, files, Logged(e1, "FetchFailed", "", FALSE),
                "403 Forbidden")
    ELSE IF result.status_code = 404
    THEN Caught(queue, stats, files, Logged(e1, "FetchFailed", "", FALSE),
                "404 Not Found")
    ELSE
    LET links == _extract_links(result, url)
        q == enqueue_links(links, url, visited, queue)
        st == [stats EXCEPT !.links_found = @ + Len(links),
                            !.links_added = @ + (Len(q) - Len(queue))]
        content == _extract_content(cfg.content_format, result)[1]
        ext == _extract_content(cfg.content_format, result)[2]
        e2 == [e1 EXCEPT !.page_title = result.title, !.content = content,
                         !.ext = ext, !.links = links]
    IN
    IF content = ""
    THEN Caught(q, st, files, Logged(e2, "ContentEmpty", "", FALSE), "no content")
    ELSE
    LET text == file_content(ext, normalized_url, result.title, content)
        file_path == url_to_file_path(url, ext)
        content_hash == sha256(text)
        stored == registry_get(registry, normalized_url)
        timestamp == clock + 1
    IN
    IF ~stored.dict
    THEN \* stored.get raises AttributeError
         Left(q, _record_error(st, "AttributeError"), registry, regfile, files,
              timestamp, Logged(e2, "RegistryError", "", FALSE))
    ELSE IF stored.hash = content_hash
    THEN LET stored_path == stored_get_path(stored, file_path)
             reg == registry_put(registry, normalized_url,
                                 Entry(content_hash, timestamp, stored_path))
         IN  Left(q, [st EXCEPT !.success = @ + 1, !.skipped_unchanged = @ + 1],
                  reg, _save_registry(regfile, reg, save), files, timestamp,
                  LoggedIO(Logged(e2, "Unchanged", "Unchanged", FALSE), "", save))
    ELSE IF fault # "none"
    THEN WriteFailure(q, st,
                      LoggedIO(Logged(e2, "WriteFailed", "Changed", fault = "write"),
                               fault, ""),
                      file_path, text, content_hash, timestamp, fault)
    ELSE LET reg == registry_put(registry, normalized_url,
                                 Entry(content_hash, timestamp, file_path))
         IN  Left(q, [st EXCEPT !.success = @ + 1,
                                !.saved_files = Append(@, file_path)],
                  reg, _save_registry(regfile, reg, save),
                  write_file(files, file_path, text, "none"), timestamp,
                  LoggedIO(Logged(e2, "Saved", "Changed", TRUE), "none", save))

\* What a call of crawler.arun did, as the log keeps it.
Answer(resp) == IF resp.raised = "" THEN "returned" ELSE resp.raised

\* crawler.arun(url, config=primary_config) returns or raises
\* (_fetch_with_timeout_handling), and on a result the rest of _crawl_page.
FetchPrimary ==
    /\ pc = "fetch"
    /\ \E resp \in PrimaryResponses(ev.url),
          fault \in Faults({"open", "write"}), save \in Faults({"open", "dump"}) :
        LET e0 == [ev EXCEPT !.answers = Append(@, Answer(resp))]
        IN
        /\ OnEndlessSite(resp)
        /\ site' = Remember(ev.url, "primary", resp)
        /\ drift' = (drift \/ (rerun /\ ev.url \in DOMAIN site
                                /\ resp # site[ev.url].primary))
        /\ IF resp.raised = "" THEN Finish(Process(resp.result, e0, fault, save))
           ELSE IF IsNavigationTimeout(resp.raised)
           THEN /\ ev' = [e0 EXCEPT !.calls = Append(@, "fallback")]
                /\ pc' = "fallback"
                /\ UNCHANGED <<cfg, robot_parser, registry, regfile, files, visited,
                               queue, stats, url, clock, rerun, stub, requested,
                               appended, reg_start>>
           ELSE Finish(Caught(queue, stats, files,
                              Logged(e0, "FetchRaised", "", FALSE), "fetch error"))

\* crawler.arun(url, config=fallback_config) returns or raises, and on a
\* result the rest of _crawl_page.
FetchFallback ==
    /\ pc = "fallback"
    /\ \E resp \in FallbackResponses(ev.url),
          fault \in Faults({"open", "write"}), save \in Faults({"open", "dump"}) :
        LET e0 == [ev EXCEPT !.answers = Append(@, Answer(resp))]
        IN
        /\ OnEndlessSite(resp)
        /\ site' = Remember(ev.url, "fallback", resp)
        /\ drift' = (drift \/ (rerun /\ ev.url \in DOMAIN site
                                /\ site[ev.url].fallback # Unasked
                                /\ resp # site[ev.url].fallback))
        /\ IF resp.raised = "" THEN Finish(Process(resp.result, e0, fault, save))
           ELSE Finish(Caught(queue, stats, files,
                              Logged(e0, "FetchRaised", "", FALSE), "fallback error"))

\* The loop of crawl() ends: self.stats['queue_remaining'] = len(self.queue)
LoopExit ==
    /\ pc = "loop"
    /\ ~LoopCond(queue, visited, cfg.max_pages)
    /\ stats' = [stats EXCEPT !.queue_remaining = Len(queue)]
    /\ pc' = "done"
    /\ UNCHANGED <<cfg, robot_parser, registry, regfile, files, visited, queue,
                   url, ev, clock, rerun, stub, site, drift, requested, appended,
                   reg_start>>

\* The same command is run once more on the same output directory:
\* SiteCrawler.__init__ of the second session.
NewSession ==
    /\ pc = "done"
    /\ ~rerun
    /\ rerun' = TRUE
    /\ \E read_fails \in Flags : registry' = _load_registry(regfile, read_fails)
    /\ \E read_raises \in Flags :
           robot_parser' = _init_robot_parser(cfg.ignore_robots, read_raises)
    /\ reg_start' = registry'
    /\ visited' = {}
    /\ queue' = <<>>
    /\ stats' = InitStats
    /\ ev' = IdleEv
    /\ url' = normalized_base
    /\ requested' = <<>>
    /\ appended' = <<>>
    /\ pc' = "start"
    /\ UNCHANGED <<cfg, regfile, files, clock, stub, site, drift>>

\* One session.
Next ==
    \/ Start
    \/ Pop
    \/ Pace
    \/ FetchPrimary
    \/ FetchFallback
    \/ LoopExit

Spec == Init /\ [][Next]_vars

\* A session and its re-run against a site that answers the same, or with
\* changed titles.
NextRerun ==
    \/ Next
    \/ NewSession

SpecRerun == InitWith("replay") /\ [][NextRerun]_vars

\* A session in which reading robots.txt, can_fetch, reading and writing
\* registry.json and writing an output file may fail.
SpecFaulty == InitWith("faulty") /\ [][Next]_vars

\* A session on the endless site; the event loop runs every step that is ready.
SpecEndless == InitWith("endless") /\ [][Next]_vars /\ WF_vars(Next)

\* The process is killed after f.write(file_content) and before
\* self.registry[normalized_url] = ... and _save_registry(): the file is on
\* disk, registry.json is as it was, and the session is over.
Interrupt ==
    /\ pc = "fetch"
    /\ stub = "crash"
    /\ \E resp \in PrimaryResponses(ev.url) :
        LET e0 == [ev EXCEPT !.answers = Append(@, Answer(resp))]
            o == Process(resp.result, e0, "none", "none")
        IN  /\ resp.raised = ""
            /\ o.ev.outcome = "Saved"
            /\ files' = o.files
            /\ ev' = Logged(e0, "Interrupted", "Changed", TRUE)
    /\ pc' = "done"
    /\ UNCHANGED <<cfg, robot_parser, registry, regfile, visited, queue, stats,
                   url, clock, rerun, stub, site, drift, requested, appended,
                   reg_start>>

\* A session of one page in which writes may fail and the process may be
\* killed, and the next session on the same output directory.
NextInterrupted ==
    \/ NextRerun
    \/ Interrupt

\* The command asks for the home page alone and ignores robots.txt.
InterruptInit == InitWith("crash") /\ cfg.max_pages = 1 /\ cfg.ignore_robots

SpecInterrupted == InterruptInit /\ [][NextInterrupted]_vars

\* ------------------------------------------------- link filter, on its own

\* The segments the paths of the links below are made of.
FilterSegments ==
    {<<"page">>, <<"v1", ".", "js">>, <<"doc", ".", "pdf">>, <<"img", ".", "PNG">>,
     <<"a", ".", "zip">>, <<"b", ".", "html">>}

\* Paths of one or two segments.
FilterPaths ==
    {<<"/">> \o s : s \in FilterSegments}
        \cup {<<"/">> \o s \o <<"/">> \o t : s \in FilterSegments, t \in FilterSegments}

\* Same-domain hrefs, with and without a query string.
FilterHrefs ==
    {Url("", "", p, q) : p \in FilterPaths, q \in {"", "x"}}
        \cup {PdfHref, DottedDirHref}

\* The home page has been fetched and reports one link, held in url.
FilterInit ==
    /\ stub = "filter"
    /\ url \in FilterHrefs
    /\ pc = "filter"
    /\ cfg = [max_pages |-> 1, content_format |-> "html", ignore_robots |-> TRUE]
    /\ robot_parser = _init_robot_parser(TRUE, FALSE)
    /\ registry = EmptyRegistry
    /\ regfile = RegFile("missing", EmptyRegistry)
    /\ files = NoFiles
    /\ visited = {normalized_base}
    /\ queue = <<>>
    /\ stats = InitStats
    /\ ev = IdleEv
    /\ clock = 0
    /\ rerun = FALSE
    /\ site = [u \in {} |-> 0]
    /\ drift = FALSE
    /\ requested = <<normalized_base>>
    /\ appended = <<normalized_base>>
    /\ reg_start = EmptyRegistry

\* links = self._extract_links(result, url) and the enqueue loop of
\* _crawl_page, for the one link the page reports.
DiscoverLink ==
    /\ pc = "filter"
    /\ LET result == Result(TRUE, 200, <<url>>, <<"H", "R", "F">>, "T1")
           links == _extract_links(result, normalized_base)
           q == enqueue_links(links, normalized_base, visited, queue)
       IN  /\ queue' = q
           /\ appended' = appended \o q
           /\ stats' = [stats EXCEPT !.links_found = @ + Len(links),
                                     !.links_added = @ + Len(q)]
    /\ pc' = "filtered"
    /\ UNCHANGED <<cfg, robot_parser, registry, regfile, files, visited, url, ev,
                   clock, rerun, stub, site, drift, requested, reg_start>>

SpecFilter == FilterInit /\ [][DiscoverLink]_vars

\* ------------------------------------------- content selection, on its own

\* Results of a successful fetch with every combination of present and
\* empty html, raw_markdown and fit_markdown.
ContentPages ==
    {Result(TRUE, 200, l, <<h, r, f>>, t) :
        l \in {<<>>, <<PageHref(1)>>}, h \in {"", "H"}, r \in {"", "R"},
        f \in {"", "F"}, t \in Titles}

\* The home page has been popped, the pacing sleep is over and the fetch is
\* about to return the result held in site.
ContentInit ==
    /\ stub = "content"
    /\ pc = "fetch"
    /\ \E f \in Formats :
          cfg = [max_pages |-> 1, content_format |-> f, ignore_robots |-> TRUE]
    /\ robot_parser = _init_robot_parser(TRUE, FALSE)
    /\ \E disk \in InitDisks :
          /\ regfile = disk.regfile
          /\ files = disk.files
          /\ registry = _load_registry(disk.regfile, FALSE)
    /\ reg_start = registry
    /\ visited = {normalized_base}
    /\ queue = <<>>
    /\ stats = InitStats
    /\ url = normalized_base
    /\ ev = [IdleEv EXCEPT !.gate = "allow", !.robots = "off",
                           !.delay = Delay(visited), !.calls = <<"primary">>]
    /\ clock = 0
    /\ rerun = FALSE
    /\ \E r \in ContentPages :
          site = (normalized_base :> [primary |-> Return(r), fallback |-> Unasked])
    /\ drift = FALSE
    /\ requested = <<normalized_base>>
    /\ appended = <<normalized_base>>

\* _crawl_page from the return of the fetch to its end, without I/O fault.
EvaluateContent ==
    /\ pc = "fetch"
    /\ stub = "content"
    /\ LET resp == site[ev.url].primary
           e0 == [ev EXCEPT !.answers = Append(@, Answer(resp))]
       IN  Finish(Process(resp.result, e0, "none", "none"))
    /\ UNCHANGED <<site, drift>>

SpecContent == ContentInit /\ [][EvaluateContent]_vars

\* ------------------------------------------------------------------ claims

NoDuplicates(s) == \A i, j \in 1..Len(s) : s[i] = s[j] => i = j

\* C1: within one session no canonical URL is handed to the fetcher's
\* primary call more than once, whatever became of its first fetch; every
\* URL handed to the fetcher is in the visited set.
C1_FetchedAtMostOnce ==
    /\ NoDuplicates(requested)
    /\ \A i \in 1..Len(requested) : requested[i] \in visited

\* C1's case: the home page was fetched and failed for lack of content, the
\* page it linked to was fetched next and reported one link to a page
\* already visited, which was not queued again.
C1_Witness ==
    /\ pc = "loop"
    /\ Len(requested) = 2
    /\ requested[1] = normalized_base
    /\ stats.errors["no content"] = 1
    /\ ev.outcome = "Saved"
    /\ stats.links_found = 2
    /\ stats.links_added = 1
    /\ queue = <<>>

\* C2: the visited set never holds more than max_pages URLs, so no more
\* than max_pages pages are fetched; in the loop the next turn is taken
\* exactly when the queue is non-empty and the visited set is below
\* max_pages, and the loop ends exactly otherwise; when it has ended,
\* queue_remaining is the length of the queue.
C2_BudgetBound ==
    /\ Cardinality(visited) <= cfg.max_pages
    /\ Len(requested) <= cfg.max_pages
    /\ pc = "loop" =>
          /\ ENABLED Pop <=> (queue # <<>> /\ Cardinality(visited) < cfg.max_pages)
          /\ ENABLED LoopExit <=> (queue = <<>> \/ Cardinality(visited) >= cfg.max_pages)
    /\ pc = "done" =>
          /\ queue = <<>> \/ Cardinality(visited) >= cfg.max_pages
          /\ stats.queue_remaining = Len(queue)

\* C2's case: the loop ended on the budget with URLs still waiting.
C2_Witness ==
    /\ pc = "done"
    /\ cfg.max_pages = MaxPages
    /\ Cardinality(visited) = cfg.max_pages
    /\ queue # <<>>
    /\ stats.queue_remaining = Len(queue)

\* C3: on a site where every page is served and links to at least one new
\* same-domain page, with max_pages = N >= 1 and no robots denial, the
\* session ends, with exactly N URLs visited and a non-zero
\* queue_remaining, and stays so.
C3_BoundedTraversal ==
    <>[](/\ pc = "done"
         /\ Cardinality(visited) = cfg.max_pages
         /\ Len(requested) = cfg.max_pages
         /\ stats.queue_remaining > 0)

\* C3's case: a session on the endless site ended on the largest budget,
\* one evaluation having gone through the fallback fetch.
C3_Witness ==
    /\ stub = "endless"
    /\ pc = "done"
    /\ cfg.max_pages = MaxPages
    /\ Cardinality(visited) = MaxPages
    /\ stats.queue_remaining > 0
    /\ Len(ev.calls) = 2

\* The evaluation the log holds got as far as the change evaluation.
ReachedChangeEvaluation ==
    ev.outcome \in {"Unchanged", "Saved", "WriteFailed", "RegistryError"}

\* C4: in the re-run of a session on the same output directory, the site
\* answering as before, every page that reaches the change evaluation is
\* Unchanged, no file is written for it, and its registry entry keeps the
\* hash and the path it had when the first session ended.
C4_RerunIsIdempotent ==
    (rerun /\ ~drift /\ ReachedChangeEvaluation) =>
        /\ ev.outcome = "Unchanged"
        /\ ~ev.wrote
        /\ ev.url \in DOMAIN reg_start
        /\ registry[ev.url].hash = reg_start[ev.url].hash
        /\ registry[ev.url].path = reg_start[ev.url].path

\* C4 on an output directory whose registry.json holds objects only.
C4_WellFormedDisk ==
    (\A u \in DOMAIN reg_start : reg_start[u].dict) => C4_RerunIsIdempotent

\* The full framed file content of the page the log holds, were its title t.
FramedWithTitle(t) ==
    [frame |-> ev.ext, url |-> ev.url, title |-> t, body |-> ev.content]

\* The registry held, when the page was evaluated, an entry for its URL with
\* the hash h.
StoredHashIs(h) ==
    /\ ev.url \in DOMAIN reg_start
    /\ reg_start[ev.url].dict
    /\ reg_start[ev.url].hash = h

\* The page the log holds differs from what the registry recorded of it in
\* the title alone.
TitleAloneDiffers ==
    \E t \in Titles \ {ev.page_title} : StoredHashIs(sha256(FramedWithTitle(t)))

\* C5: a page that reaches the change evaluation is Unchanged if and only if
\* the registry holds an entry for its canonical URL whose hash is the hash
\* of the full framed content (frame, canonical URL, title, payload); a
\* first-seen URL is Changed; a page with the payload of the previous run
\* and another title is Changed and its file is rewritten.
C5_ChangeDetection ==
    ReachedChangeEvaluation =>
        /\ ev.decision = "Unchanged"
              <=> StoredHashIs(sha256(FramedWithTitle(ev.page_title)))
        /\ ev.url \notin DOMAIN reg_start =>
              ev.decision = "Changed" /\ ev.outcome = "Saved"
        /\ TitleAloneDiffers =>
              /\ ev.decision = "Changed"
              /\ ev.wrote
              /\ files[url_to_file_path(url, ev.ext)] = FramedWithTitle(ev.page_title)
              /\ registry[ev.url].hash = sha256(FramedWithTitle(ev.page_title))

\* C5's case: in the re-run a page came back with the payload of the first
\* session and another title, and was written again.
C5_Witness ==
    /\ rerun
    /\ drift
    /\ TitleAloneDiffers
    /\ ev.outcome = "Saved"
    /\ ev.url # normalized_base

\* C6: every URL in the queue other than the seed has the host of the base
\* URL; a link that resolves to another domain, to a subdomain or to no
\* host at all is never enqueued.
C6_DomainContainment ==
    \A i \in 1..Len(queue) :
        queue[i] # normalized_base => queue[i].host = base_domain_netloc

\* C7: a page evaluation calls the fetcher at most twice; the second call
\* is made if and only if the primary call raised a navigation timeout, it
\* is the fallback call and nothing follows it; a fallback that returns a
\* page with content on first sight ends as Saved; a fallback that raises
\* ends as a failure that is counted.
C7_SingleFallback ==
    /\ ev.calls \in {<<>>, <<"primary">>, <<"primary", "fallback">>}
    /\ Len(ev.answers) <= Len(ev.calls)
    /\ Len(ev.calls) = 2 <=> (Len(ev.answers) >= 1 /\ ev.answers[1] = "timeout")
    /\ pc = "fallback" <=> (ev.calls = <<"primary", "fallback">> /\ Len(ev.answers) = 1)
    /\ (/\ ev.answers = <<"timeout", "returned">>
        /\ ev.result_kind = "page"
        /\ ev.content # ""
        /\ ev.url \notin DOMAIN reg_start)
          => (ev.outcome = "Saved" /\ ev.wrote /\ stats.success >= 1)
    /\ (Len(ev.answers) = 2 /\ ev.answers[2] # "returned")
          => /\ ev.outcome = "FetchRaised"
             /\ stats.failed >= 1
             /\ stats.errors["fallback error"] >= 1
    /\ pc \in {"loop", "done"} => stats.success + stats.failed = Len(requested)

\* C7's case: the primary call timed out and the fallback call brought a
\* page seen for the first time, which was saved.
C7_Witness ==
    /\ ev.answers = <<"timeout", "returned">>
    /\ ev.calls = <<"primary", "fallback">>
    /\ ev.url \notin DOMAIN reg_start
    /\ ev.outcome = "Saved"

\* The page evaluation logged in e met one of the per-page errors: the
\* primary call raised something else than a timeout, the fallback call
\* raised, the result was unsuccessful or a 403/404, or the payload was empty.
PerPageError(e) ==
    \/ e.answers = <<"error">>
    \/ Len(e.answers) = 2 /\ e.answers[2] # "returned"
    \/ e.result_kind \in {"unsuccessful", "403", "404"}
    \/ e.result_kind = "page" /\ e.content = ""

\* The per-kind counter that answers to the error logged in e.
ExpectedErrorKind(e) ==
    IF e.answers = <<"error">> THEN "fetch error"
    ELSE IF Len(e.answers) = 2 /\ e.answers[2] # "returned" THEN "fallback error"
    ELSE IF e.result_kind = "unsuccessful" THEN "error_message"
    ELSE IF e.result_kind = "403" THEN "403 Forbidden"
    ELSE IF e.result_kind = "404" THEN "404 Not Found"
    ELSE "no content"

\* C8: a per-page error adds one to the failed counter and one to the
\* counter of its kind, and to no other, and hands control back to the
\* loop, which pops the next URL whenever the queue is non-empty and the
\* budget is not reached.
C8_ErrorsDoNotEndTheLoop ==
    /\ [][(pc \in {"fetch", "fallback"} /\ PerPageError(ev')) =>
            /\ pc' = "loop"
            /\ stats'.failed = stats.failed + 1
            /\ stats'.success = stats.success
            /\ \A k \in ErrorKinds :
                 stats'.errors[k] =
                    stats.errors[k] + (IF k = ExpectedErrorKind(ev') THEN 1 ELSE 0)]_vars
    /\ []((/\ pc = "loop"
           /\ PerPageError(ev)
           /\ queue # <<>>
           /\ Cardinality(visited) < cfg.max_pages) => ENABLED Pop)

\* C8's case: the home page came without content, was counted as failed,
\* and the loop went on to the page it linked to.
C8_Witness ==
    /\ pc = "pace"
    /\ ev.url # normalized_base
    /\ stats.failed = 1
    /\ stats.errors["no content"] = 1

\* C9: after any pop the popped canonical URL is in the visited set, also
\* when the robots gate then blocks it.
C9_VisitedWhenPopped == ev.gate # "" => ev.url \in visited

\* C10: within a session no canonical URL is appended to the queue twice,
\* whatever its outcome, a URL blocked by robots and found again included.
C10_EnqueuedAtMostOnce == NoDuplicates(appended)

RECURSIVE LastSegment(_)
\* The tokens of a path after its last "/".
LastSegment(p) ==
    IF p = <<>> \/ p[Len(p)] = "/" THEN <<>>
    ELSE Append(LastSegment(SubSeq(p, 1, Len(p) - 1)), p[Len(p)])

\* The final segment of the path ends in "." and an excluded extension,
\* whatever the case of its letters.
EndsInExcludedExtension(p) ==
    LET seg == LastSegment(p)
    IN  /\ Len(seg) >= 2
        /\ seg[Len(seg) - 1] = "."
        /\ lower(seg[Len(seg)]) \in EXCLUDED_FILE_EXTENSIONS

\* C11: a discovered same-domain link is dropped if and only if the final
\* segment of its path has an excluded extension (case and query string
\* aside); a link whose last segment has no extension is enqueued, also
\* when an earlier segment ends in an excluded extension.
C11_ExtensionRule ==
    pc = "filtered" => (queue = <<>> <=> EndsInExcludedExtension(url.path))

\* C12: a page evaluation that ends Unchanged writes no output file, leaves
\* the hash and the path of the URL's registry entry as they were and
\* renews its last_crawled alone, changes no other URL's entry, leaves the
\* saved-files list and the failed counter alone, and adds exactly one to
\* success and to skipped_unchanged.
C12_UnchangedFrame ==
    [][(pc \in {"fetch", "fallback"} /\ ev'.outcome = "Unchanged") =>
        /\ files' = files
        /\ ~ev'.wrote
        /\ ev.url \in DOMAIN registry
        /\ DOMAIN registry' = DOMAIN registry
        /\ registry'[ev.url].hash = registry[ev.url].hash
        /\ registry'[ev.url].path = registry[ev.url].path
        /\ registry'[ev.url].last_crawled = clock'
        /\ clock' > clock
        /\ \A u \in DOMAIN registry \ {ev.url} : registry'[u] = registry[u]
        /\ stats'.saved_files = stats.saved_files
        /\ stats'.success = stats.success + 1
        /\ stats'.skipped_unchanged = stats.skipped_unchanged + 1
        /\ stats'.failed = stats.failed
        /\ stats'.errors = stats.errors]_vars

\* C12's case: in the re-run a page other than the home page came back as
\* it was and ended Unchanged, the registry holding other entries too.
C12_Witness ==
    /\ rerun
    /\ ev.outcome = "Unchanged"
    /\ ev.url # normalized_base
    /\ Cardinality(DOMAIN registry) >= 2
    /\ stats.skipped_unchanged >= 1

\* C13: when robots.txt could not be loaded, or robots is switched off, the
\* session starts, every popped URL is allowed and skipped_by_robots stays
\* 0; when can_fetch raises for a URL, that URL is allowed: it is counted
\* nowhere as skipped and, unless visited already, goes on to its fetch.
C13_RobotsFailOpen ==
    /\ [](robot_parser = "None" =>
            /\ stats.skipped_by_robots = 0
            /\ ev.gate \in {"", "allow"}
            /\ ev.outcome # "Blocked")
    /\ [](pc = "start" => ENABLED Start)
    /\ [][(pc = "loop" /\ pc' # "done" /\ ev'.robots \in {"off", "error"}) =>
            /\ ev'.gate = "allow"
            /\ stats' = stats
            /\ ev'.url \notin visited => (pc' = "pace" /\ ev'.url \in visited')]_vars

\* C13's case: robots was asked for and robots.txt could not be loaded; the
\* page robots.txt disallows was popped, fetched and saved.
C13_Witness ==
    /\ ~cfg.ignore_robots
    /\ robot_parser = "None"
    /\ ev.url \in robots_txt
    /\ ev.robots = "off"
    /\ ev.outcome = "Saved"

\* C14: when the write of the output file fails for a page evaluated as
\* Changed, the page is counted as failed and not as a success, the
\* registry is as it was in memory and on disk, saved_files is as it was,
\* and the loop takes its next turn whenever the queue is non-empty and the
\* budget is not reached.
C14_FileWriteFailure ==
    /\ [][(pc \in {"fetch", "fallback"} /\ ev'.file_io \in {"open", "write"}) =>
            /\ ev'.decision = "Changed"
            /\ stats'.failed = stats.failed + 1
            /\ stats'.success = stats.success
            /\ registry' = registry
            /\ regfile' = regfile
            /\ stats'.saved_files = stats.saved_files
            /\ pc' = "loop"]_vars
    /\ []((/\ pc = "loop"
           /\ ev.file_io \in {"open", "write"}
           /\ queue # <<>>
           /\ Cardinality(visited) < cfg.max_pages) => ENABLED Pop)

\* C14's case: the file of a page seen for the first time could not be
\* written, the registry holds no entry for it, and the loop has popped the
\* next URL.
C14_Witness ==
    /\ ev.file_io = ""
    /\ pc = "pace"
    /\ stats.errors["write error"] = 1
    /\ stats.failed = 1
    /\ normalized_base \in visited
    /\ normalized_base \notin DOMAIN registry
    /\ regfile.state = "missing"

\* The registry reg holds for the page logged in e an entry with the hash
\* of its full framed content.
HoldsHashOf(reg, e) ==
    /\ e.url \in DOMAIN reg
    /\ reg[e.url].dict
    /\ reg[e.url].hash =
          sha256([frame |-> e.ext, url |-> e.url, title |-> e.page_title,
                  body |-> e.content])

\* C15: a failure to write registry.json leaves the page a success (Saved
\* or Unchanged) and the session in its loop; the registry in memory holds
\* the new entry and every other entry as before; and every evaluation
\* decides Unchanged or Changed by the registry in memory, whatever the
\* file on disk holds.
C15_RegistryWriteFailure ==
    /\ [][(pc \in {"fetch", "fallback"} /\ ev'.registry_io \in {"open", "dump"}) =>
            /\ ev'.outcome \in {"Saved", "Unchanged"}
            /\ ev'.outcome = "Saved" <=> ev'.file_io = "ok"
            /\ stats'.success = stats.success + 1
            /\ stats'.failed = stats.failed
            /\ HoldsHashOf(registry', ev')
            /\ registry'[ev.url].last_crawled = clock'
            /\ \A u \in DOMAIN registry \ {ev.url} :
                 u \in DOMAIN registry' /\ registry'[u] = registry[u]
            /\ regfile' # RegFile("ok", registry')
            /\ pc' = "loop"]_vars
    /\ [][(pc \in {"fetch", "fallback"} /\ ev'.decision # "") =>
            (ev'.decision = "Unchanged" <=> HoldsHashOf(registry, ev'))]_vars
    /\ []((/\ pc = "loop"
           /\ ev.registry_io \in {"open", "dump"}
           /\ queue # <<>>
           /\ Cardinality(visited) < cfg.max_pages) => ENABLED Pop)

\* C15's case: the save of registry.json failed half-way for the home page
\* and left nothing readable on disk; the next page was then found
\* Unchanged by the entry the registry holds in memory.
C15_Witness ==
    /\ regfile.state = "garbage"
    /\ ev.url # normalized_base
    /\ ev.outcome = "Unchanged"
    /\ ev.registry_io = "open"
    /\ stats.success = 2
    /\ HoldsHashOf(reg_start, ev)

\* C16: a malformed registry.json counts as an empty one: when the file was
\* unreadable or no object (the session starts with an empty registry), or
\* when the entry of the page's URL is no object, a page that reaches the
\* change evaluation is Changed as on first sight, its file is written
\* unless the write itself fails, and it does not end as a failure for
\* what the registry held.
C16_MalformedRegistryIsEmpty ==
    (/\ ReachedChangeEvaluation
     /\ \/ reg_start = EmptyRegistry
        \/ ev.url \in DOMAIN reg_start /\ ~reg_start[ev.url].dict)
       => /\ ev.decision = "Changed"
          /\ ev.outcome # "RegistryError"
          /\ ev.file_io = "ok" => (ev.outcome = "Saved" /\ HoldsHashOf(registry, ev))

\* C17: every call of the fetcher, primary or fallback, comes after the
\* pacing sleep of the same page evaluation; the sleep is the fixed delay
\* for the first page the session requests and a value of the range for
\* every later page; and when the fetch of a later page is started, every
\* page requested before has ended its evaluation, counted as a success or
\* as a failure.
C17_Pacing ==
    /\ [](ev.calls # <<>> =>
            /\ requested # <<>>
            /\ requested[Len(requested)] = ev.url
            /\ ev.delay = IF Len(requested) = 1
                          THEN [lo |-> FirstDelay, hi |-> FirstDelay]
                          ELSE [lo |-> DelayMin, hi |-> DelayMax])
    /\ [][ev'.calls # ev.calls =>
            \/ ev'.calls = <<>>
            \/ /\ pc = "pace" /\ ev.calls = <<>> /\ ev'.calls = <<"primary">>
               /\ ev'.delay # NoDelay
               /\ stats.success + stats.failed = Len(requested)
               /\ requested' = Append(requested, ev.url)
            \/ /\ pc = "fetch" /\ ev'.calls = <<"primary", "fallback">>
               /\ ev'.delay = ev.delay
               /\ requested' = requested]_vars
C17_Witness ==
    /\ Len(requested) = 2
    /\ pc = "fallback"
    /\ ev.calls = <<"primary", "fallback">>
    /\ ev.delay = [lo |-> DelayMin, hi |-> DelayMax]
    /\ stats.success + stats.failed = 1

\* The urls the links of the evaluation e lead to that are neither visited
\* nor queued.
NewLinksOf(e, v, q) ==
    {normalize_url_for_deep_crawl(e.links[i], e.url) : i \in 1..Len(e.links)}
        \ (v \cup {q[i] : i \in 1..Len(q)})

\* The part of the queue q1 behind its first n elements.
Behind(q1, n) == SubSeq(q1, n + 1, Len(q1))

\* C18: a page evaluation whose fetch returned a successful result with a
\* status other than 403 and 404 appends every new link link discovery
\* found on the page to the queue, once each, whatever the evaluation ends
\* as (Unchanged, Saved, no content, failed file write); an evaluation whose
\* fetch raised or returned an unsuccessful result, a 403 or a 404, and one
\* the robots gate blocked, leaves the queue behind the popped url and the
\* link counters as they were.
C18_LinkDiscovery ==
    /\ [][(pc \in {"fetch", "fallback"} /\ pc' = "loop") =>
            IF ev'.result_kind = "page"
            THEN /\ ev'.outcome \in {"Unchanged", "Saved", "ContentEmpty",
                                     "WriteFailed", "RegistryError"}
                 /\ Len(queue') >= Len(queue)
                 /\ SubSeq(queue', 1, Len(queue)) = queue
                 /\ NoDuplicates(Behind(queue', Len(queue)))
                 /\ {queue'[i] : i \in (Len(queue) + 1)..Len(queue')} =
                        NewLinksOf(ev', visited, queue)
                 /\ stats'.links_found = stats.links_found + Len(ev'.links)
                 /\ stats'.links_added = stats.links_added
                                            + Len(queue') - Len(queue)
            ELSE /\ ev'.outcome \in {"FetchFailed", "FetchRaised"}
                 /\ ev'.links = <<>>
                 /\ queue' = queue
                 /\ stats'.links_found = stats.links_found
                 /\ stats'.links_added = stats.links_added]_vars
    /\ [][(pc = "loop" /\ pc' = "loop" /\ ev'.outcome = "Blocked") =>
            /\ queue' = Tail(queue)
            /\ stats'.links_found = stats.links_found
            /\ stats'.links_added = stats.links_added]_vars
    /\ [](ev.outcome \in {"Unchanged", "Saved", "ContentEmpty", "WriteFailed",
                          "RegistryError"} <=> ev.result_kind = "page")
C18_Witness ==
    /\ ev.outcome = "Unchanged"
    /\ ev.url # normalized_base
    /\ stats.failed = 1
    /\ stats.links_added = 2
    /\ queue # <<>>
    /\ queue[Len(queue)] = normalize_url_for_deep_crawl(ev.links[1], ev.url)

\* The payload the content format selects from the variants of a result.
Selected(format, result) ==
    CASE format = "html" -> result.html
      [] format = "raw-md" ->
            IF result.raw_markdown # "" THEN result.raw_markdown
            ELSE result.fit_markdown
      [] OTHER ->
            IF result.fit_markdown # "" THEN result.fit_markdown
            ELSE result.raw_markdown

\* C19: for every content format and every combination of present and empty
\* variants, the payload of the page is the markup with extension html for
\* html, the unfiltered text or else the filtered text for raw, the filtered
\* text or else the unfiltered text for filtered; with an empty payload the
\* page is a counted failure, no file is written and the registry, in
\* memory and on disk, stays as it was; a page that is saved holds the
\* payload in a file of the format's extension.
C19_ContentSelection ==
    [][pc = "fetch" =>
         LET result == site[ev.url].primary.result
             payload == Selected(cfg.content_format, result)
             ext == IF cfg.content_format = "html" THEN "html" ELSE "md"
         IN  IF payload = ""
             THEN /\ ev'.outcome = "ContentEmpty"
                  /\ stats'.failed = stats.failed + 1
                  /\ stats'.errors["no content"] = stats.errors["no content"] + 1
                  /\ stats'.success = stats.success
                  /\ stats'.saved_files = stats.saved_files
                  /\ files' = files
                  /\ registry' = registry
                  /\ regfile' = regfile
             ELSE /\ ev'.outcome \in {"Saved", "Unchanged", "RegistryError"}
                  /\ ev'.content = payload
                  /\ ev'.ext = ext
                  /\ ev'.outcome = "Saved" =>
                        /\ url_to_file_path(url, ext) \in DOMAIN files'
                        /\ files'[url_to_file_path(url, ext)].body = payload
                        /\ files'[url_to_file_path(url, ext)].frame = ext
                        /\ registry'[ev.url].path = url_to_file_path(url, ext)]_vars
C19_Witness ==
    /\ pc = "loop"
    /\ stub = "content"
    /\ cfg.content_format = "raw-md"
    /\ site[ev.url].primary.result.raw_markdown = ""
    /\ site[ev.url].primary.result.html = "H"
    /\ ev.content = "F"
    /\ ev.outcome = "Saved"

\* C20: when the robots gate disallows the url the loop pops, the page
\* evaluation adds one to skipped_by_robots and changes nothing else: no
\* pacing sleep, no call of the fetcher, no link appended to the queue, no
\* file and no registry written, every other counter as it was, and the
\* loop goes on behind the popped url.
C20_BlockedFrame ==
    [][(/\ pc = "loop"
        /\ LoopCond(queue, visited, cfg.max_pages)
        /\ ~_is_allowed_by_robots(robot_parser, robots_txt,
                                  normalize_url_for_deep_crawl(Head(queue), BaseUrl),
                                  FALSE))
       => /\ stats' = [stats EXCEPT !.skipped_by_robots = stats.skipped_by_robots + 1]
          /\ queue' = Tail(queue)
          /\ appended' = appended
          /\ requested' = requested
          /\ ev'.outcome = "Blocked"
          /\ ev'.calls = <<>>
          /\ ev'.delay = NoDelay
          /\ visited' = visited
          /\ registry' = registry
          /\ regfile' = regfile
          /\ files' = files
          /\ clock' = clock
          /\ pc' = "loop"]_vars
C20_Witness ==
    /\ ev.outcome = "Blocked"
    /\ ev.url \in robots_txt
    /\ stats.skipped_by_robots = 1
    /\ stats.success = 1
    /\ stats.links_added = 2
    /\ Len(requested) = 1
    /\ Len(queue) = 1

\* C21: whenever a page evaluation ends Unchanged, in the first session or
\* in the one that follows a session that was killed between the write of
\* the file and the write of the registry or in which a write of
\* registry.json failed, the file at the path the registry entry stores
\* holds the framed content whose hash was just compared.
C21_RegistryMatchesFiles ==
    ev.outcome = "Unchanged" =>
        /\ ev.url \in DOMAIN registry
        /\ registry[ev.url].path \in DOMAIN files
        /\ files[registry[ev.url].path] =
              file_content(ev.ext, ev.url, ev.page_title, ev.content)

\* C22: between page evaluations every visited url has been counted once,
\* as a success or as a failure: success + failed is the number of visited
\* urls, skipped_unchanged is at most success, the saved files are
\* success - skipped_unchanged many, each of them on disk and listed once,
\* and links_added is the number of urls appended to the queue after the
\* seed.
C22_CountedOnce ==
    pc \in {"loop", "done"} =>
        /\ stats.success + stats.failed = Cardinality(visited)
        /\ stats.skipped_unchanged <= stats.success
        /\ Len(stats.saved_files) = stats.success - stats.skipped_unchanged
        /\ NoDuplicates(stats.saved_files)
        /\ \A i \in 1..Len(stats.saved_files) : stats.saved_files[i] \in DOMAIN files
        /\ stats.links_added = Len(appended) - 1
C22_Witness ==
    /\ pc = "done"
    /\ Cardinality(visited) = 2
    /\ stats.success = 1
    /\ stats.failed = 1
    /\ stats.skipped_unchanged = 1
    /\ stats.saved_files = <<>>
    /\ stats.skipped_by_robots = 1
    /\ stats.errors["write error"] = 1
    /\ stats.links_added = 2
    /\ Len(appended) = 3

====
